---- MODULE Spec2Model ----
(***************************************************************************)
(* SNBT text-to-tree parsing of rustnbt (src/src/snbt.rs): the lexer       *)
(* Token::parse, the grammar parser() and the entry point parse().         *)
(*                                                                         *)
(* A character is a string of length one, a text a sequence of characters. *)
(* Positions are 1-based; a parser applied at position p answers a record  *)
(* [ok, ..., next] where next is the position after what it consumed.      *)
(* A combinator chain of the source is written as a chain of operators,    *)
(* each handing its result to the next one.                                *)
(***************************************************************************)
EXTENDS Integers, Sequences, FiniteSets, TLC

VARIABLES source, pc, pos, tokens, spans, result, consumed, grammarRan

vars == <<source, pc, pos, tokens, spans, result, consumed, grammarRan>>

(***************************************************************************)
(* Bounds of the explored inputs.                                          *)
(***************************************************************************)
MaxLen == 4
MaxDigits == 2
MaxElems == 2

(***************************************************************************)
(* Characters.                                                             *)
(***************************************************************************)
LowerSeq == <<"a","b","c","d","e","f","g","h","i","j","k","l","m",
              "n","o","p","q","r","s","t","u","v","w","x","y","z">>
UpperSeq == <<"A","B","C","D","E","F","G","H","I","J","K","L","M",
              "N","O","P","Q","R","S","T","U","V","W","X","Y","Z">>
DigitSeq == <<"0","1","2","3","4","5","6","7","8","9">>

Range(f) == {f[i] : i \in DOMAIN f}

Digits == Range(DigitSeq)
Letters == Range(LowerSeq) \cup Range(UpperSeq)
Whitespace == {" ", "\t", "\n", "\r"}

\* char::is_alphanumeric, on the ASCII characters of the explored texts.
is_alphanumeric(c) == c \in Letters \cup Digits

\* fn is_ident_char
is_ident_char(c) == is_alphanumeric(c) \/ c \in {"_", "-", "+", "."}

IdentChars == {c \in Letters \cup Digits \cup {"_", "-", "+", "."} : is_ident_char(c)}

\* str::to_lowercase on one character
to_lowercase(c) ==
    IF c \in Range(UpperSeq)
    THEN LowerSeq[CHOOSE i \in DOMAIN UpperSeq : UpperSeq[i] = c]
    ELSE c

\* The value of a decimal digit character.
DigitVal(c) == (CHOOSE i \in DOMAIN DigitSeq : DigitSeq[i] = c) - 1

(***************************************************************************)
(* Character-level combinators.                                            *)
(***************************************************************************)
At(s, p) == IF p >= 1 /\ p <= Len(s) THEN s[p] ELSE "EOF"

\* filter(pred).repeated(): the position after the longest run of
\* characters of set S that starts at p.
RunEnd(s, p, S) ==
    IF \E q \in p..Len(s) : s[q] \notin S
    THEN CHOOSE q \in p..Len(s) :
            /\ s[q] \notin S
            /\ \A r \in p..(q - 1) : s[r] \in S
    ELSE Len(s) + 1

Fail == [ok |-> FALSE, next |-> 0]
Ok(next) == [ok |-> TRUE, next |-> next]

\* choice(...): the first alternative that succeeds, in the order given.
FirstOk(alts, fail) ==
    IF \E i \in DOMAIN alts : alts[i].ok
    THEN alts[CHOOSE i \in DOMAIN alts :
                 alts[i].ok /\ \A j \in 1..(i - 1) : ~alts[j].ok]
    ELSE fail

\* fn strcmp
strcmp(ignore_case, lhs, rhs) ==
    IF Len(lhs) # Len(rhs) THEN FALSE
    ELSE IF ignore_case
         THEN \A i \in 1..Len(lhs) : to_lowercase(lhs[i]) = to_lowercase(rhs[i])
         ELSE lhs = rhs

\* fn identifier: one or more identifier characters, up to position e.
KeywordRun(word, ignore_case, s, p, e) ==
    IF e > p /\ strcmp(ignore_case, word, SubSeq(s, p, e - 1)) THEN Ok(e) ELSE Fail

\* fn keyword: identifier() then the comparison with the word.
keyword(word, ignore_case, s, p) ==
    KeywordRun(word, ignore_case, s, p, RunEnd(s, p, IdentChars))

\* keyword(w, true).to(sub)
KeywordTo(r, sub) == [ok |-> r.ok, sub |-> sub, next |-> r.next]

\* choice((keyword(w1, true).to(sub1), ...)) at position p
KeywordChoice(words, subs, s, p) ==
    FirstOk([k \in DOMAIN words |-> KeywordTo(keyword(<<words[k]>>, TRUE, s, p), subs[k])],
            [ok |-> FALSE, sub |-> "", next |-> 0])

\* choice(...).or_not().map(|opt| opt.unwrap_or(dflt)): nothing is consumed
\* when no keyword matches.
OrDefault(r, dflt, p) == IF r.ok THEN r ELSE [ok |-> TRUE, sub |-> dflt, next |-> p]

\* chumsky text::ident: a letter or '_' and then letters, digits and '_'.
text_ident_end(s, p) ==
    IF At(s, p) \in Letters \cup {"_"}
    THEN RunEnd(s, p + 1, Letters \cup Digits \cup {"_"})
    ELSE p

TextKeywordRun(word, s, p, e) ==
    IF e > p /\ SubSeq(s, p, e - 1) = word THEN Ok(e) ELSE Fail

\* chumsky text::keyword: text::ident then equality with the word.
text_keyword(word, s, p) == TextKeywordRun(word, s, p, text_ident_end(s, p))

\* chumsky text::int(10): a non-zero digit and then digits, or a lone '0'.
text_int(s, p) ==
    IF At(s, p) \in Digits \ {"0"} THEN Ok(RunEnd(s, p + 1, Digits))
    ELSE IF At(s, p) = "0" THEN Ok(p + 1)
    ELSE Fail

TextDigitsRun(p, e) == IF e > p THEN Ok(e) ELSE Fail

\* chumsky text::digits(10): one or more digits.
text_digits(s, p) == TextDigitsRun(p, RunEnd(s, p, Digits))

\* boundary that bars letters and digits only.
BoundaryAlnum(s, p) == p > Len(s) \/ ~is_alphanumeric(s[p])

\* The look-ahead that closes Integer and Decimal: a character that is
\* neither alphanumeric nor one of _ + - . , or the end of the input.
boundary(s, p) ==
    \/ p > Len(s)
    \/ ~is_alphanumeric(s[p]) /\ s[p] \notin {"_", "+", "-", "."}

\* just('-').or_not()
AfterSign(s, p) == IF At(s, p) = "-" THEN p + 1 ELSE p

(***************************************************************************)
(* Tokens: [kind, text, sub]. text is the digit text or the string, sub    *)
(* the ArrayType, IntegerType, DecimalType or the boolean.                 *)
(***************************************************************************)
Tok(kind, text, sub) == [kind |-> kind, text |-> text, sub |-> sub]
NoTok == Tok("None", <<>>, "")

LexFailT == [ok |-> FALSE, tok |-> NoTok, next |-> 0]
LexOk(tok, next) == [ok |-> TRUE, tok |-> tok, next |-> next]

\* just(c).to(Token::kind)
just_tok(c, kind, s, p) ==
    IF At(s, p) = c THEN LexOk(Tok(kind, <<>>, ""), p + 1) ELSE LexFailT

comma(s, p) == just_tok(",", "Comma", s, p)
colon(s, p) == just_tok(":", "Colon", s, p)
open_bracket(s, p) == just_tok("[", "OpenBracket", s, p)
close_bracket(s, p) == just_tok("]", "CloseBracket", s, p)
open_brace(s, p) == just_tok("{", "OpenBrace", s, p)
close_brace(s, p) == just_tok("}", "CloseBrace", s, p)

\* .then_ignore(just(';')).map(Token::ArrayStart)
ArrayStartEnd(s, k) ==
    IF k.ok /\ At(s, k.next) = ";"
    THEN LexOk(Tok("ArrayStart", <<>>, k.sub), k.next + 1)
    ELSE LexFailT

array_start(s, p) ==
    IF At(s, p) # "[" THEN LexFailT
    ELSE ArrayStartEnd(s, KeywordChoice(<<"b", "i", "l">>, <<"Byte", "Int", "Long">>, s, p + 1))

BooleanOf(t, f) ==
    IF t.ok THEN LexOk(Tok("Boolean", <<>>, "true"), t.next)
    ELSE IF f.ok THEN LexOk(Tok("Boolean", <<>>, "false"), f.next)
    ELSE LexFailT

boolean(s, p) ==
    BooleanOf(text_keyword(<<"t","r","u","e">>, s, p),
              text_keyword(<<"f","a","l","s","e">>, s, p))

\* The closing look-ahead (rewound) and the token: s[p..e-1] is the sign
\* and the digits, ty the width and the position after the suffix.
NumberEnd(kind, s, p, e, ty) ==
    IF boundary(s, ty.next)
    THEN LexOk(Tok(kind, SubSeq(s, p, e - 1), ty.sub), ty.next)
    ELSE LexFailT

\* IntegerSuffix with the widths of the suffixes s and l exchanged.
IntegerSuffixSwapped(s, p, n) ==
    IF ~n.ok THEN LexFailT
    ELSE NumberEnd("Integer", s, p, n.next,
            OrDefault(KeywordChoice(<<"b", "s", "l">>, <<"Byte", "Long", "Short">>, s, n.next),
                      "Int", n.next))

IntegerSuffix(s, p, n) ==
    IF ~n.ok THEN LexFailT
    ELSE NumberEnd("Integer", s, p, n.next,
            OrDefault(KeywordChoice(<<"b", "s", "l">>, <<"Byte", "Short", "Long">>, s, n.next),
                      "Int", n.next))

integer(s, p) == IntegerSuffix(s, p, text_int(s, AfterSign(s, p)))

\* text::int(10).chain(just('.')).chain(text::digits(10))
Fraction(s, n) ==
    IF n.ok /\ At(s, n.next) = "." THEN text_digits(s, n.next + 1) ELSE Fail

\* text::int(10).then_ignore(choice((keyword("d"), keyword("f"))).rewind())
Suffixed(s, n) ==
    IF n.ok /\ KeywordChoice(<<"d", "f">>, <<"Double", "Float">>, s, n.next).ok
    THEN n ELSE Fail

DecimalSuffix(s, p, body) ==
    IF ~body.ok THEN LexFailT
    ELSE NumberEnd("Decimal", s, p, body.next,
            OrDefault(KeywordChoice(<<"d", "f">>, <<"Double", "Float">>, s, body.next),
                      "Double", body.next))

DecimalBody(s, n) == FirstOk(<<Fraction(s, n), Suffixed(s, n)>>, Fail)

decimal(s, p) == DecimalSuffix(s, p, DecimalBody(s, text_int(s, AfterSign(s, p))))

IdentifierRun(s, p, e) ==
    IF e > p THEN LexOk(Tok("Identifier", SubSeq(s, p, e - 1), ""), e) ELSE LexFailT

identifier(s, p) == IdentifierRun(s, p, RunEnd(s, p, IdentChars))

\* The escape table of string_literal; "<BS>" stands for U+0008.
EscapeOf(c) ==
    CASE c = "\\" -> "\\"
      [] c = "/" -> "/"
      [] c = "\"" -> "\""
      [] c = "'" -> "'"
      [] c = "b" -> "<BS>"
      [] c = "f" -> "\f"
      [] c = "n" -> "\n"
      [] c = "r" -> "\r"
      [] c = "t" -> "\t"
      [] OTHER -> "NONE"

RECURSIVE quoted_body(_, _, _, _)
\* (none_of("\\<q>").or(escape)).repeated() then just(<q>)
quoted_body(s, p, q, acc) ==
    IF p > Len(s) THEN LexFailT
    ELSE IF s[p] = q THEN LexOk(Tok("StringLiteral", acc, ""), p + 1)
    ELSE IF s[p] = "\\"
         THEN IF EscapeOf(At(s, p + 1)) # "NONE"
              THEN quoted_body(s, p + 2, q, Append(acc, EscapeOf(At(s, p + 1))))
              ELSE LexFailT
         ELSE quoted_body(s, p + 1, q, Append(acc, s[p]))

Quoted(s, p) ==
    IF At(s, p) = "\"" THEN quoted_body(s, p + 1, "\"", <<>>)
    ELSE IF At(s, p) = "'" THEN quoted_body(s, p + 1, "'", <<>>)
    ELSE LexFailT

\* Token::identifier().or(choice((double-quoted, single-quoted)))
string_literal(s, p) == FirstOk(<<identifier(s, p), Quoted(s, p)>>, LexFailT)

\* TokenAlternatives with '[' tried before ArrayStart.
TokenAlternativesBracketFirst(s, p) ==
    << comma(s, p), colon(s, p), open_bracket(s, p), array_start(s, p),
       close_bracket(s, p), open_brace(s, p), close_brace(s, p), boolean(s, p),
       integer(s, p), decimal(s, p), identifier(s, p), string_literal(s, p) >>

\* The token parsers in the order token_api! hands them to choice(...).
TokenAlternatives(s, p) ==
    << comma(s, p), colon(s, p), array_start(s, p), open_bracket(s, p),
       close_bracket(s, p), open_brace(s, p), close_brace(s, p), boolean(s, p),
       integer(s, p), decimal(s, p), identifier(s, p), string_literal(s, p) >>

\* st is where the token's text begins, last where it ends; next is after
\* the white space that follows it.
PaddedResult(s, p, st, r) ==
    IF r.ok
    THEN [ok |-> TRUE, tok |-> r.tok, start |-> st, last |-> r.next - 1,
          next |-> RunEnd(s, r.next, Whitespace)]
    ELSE [ok |-> FALSE, tok |-> NoTok, start |-> st, last |-> 0, next |-> p]

PaddedAt(s, p, st) == PaddedResult(s, p, st, FirstOk(TokenAlternatives(s, st), LexFailT))

\* choice(...).padded(): white space, one token, white space.
PaddedToken(s, p) == PaddedAt(s, p, RunEnd(s, p, Whitespace))

RECURSIVE TokenLoop(_, _, _)
TokenStep(s, p, acc, r) ==
    IF r.ok THEN TokenLoop(s, r.next, Append(acc, r.tok))
    ELSE [toks |-> acc, next |-> p]

\* .repeated(): padded tokens as long as one parses.
TokenLoop(s, p, acc) == TokenStep(s, p, acc, PaddedToken(s, p))

TokenEnd(s, r) ==
    IF Len(r.toks) >= 1 /\ r.next > Len(s)
    THEN [ok |-> TRUE, toks |-> r.toks]
    ELSE [ok |-> FALSE, toks |-> <<>>]

\* Token::parse: padded tokens repeated at least once, then end().
TokenParse(s) == TokenEnd(s, TokenLoop(s, 1, <<>>))

(***************************************************************************)
(* Conversion of digit text: str::parse::<i8|i16|i32|i64>.  Values are     *)
(* kept as canonical decimal text (no leading zeros, no "-0"), so that the *)
(* 64-bit range is exact.                                                  *)
(***************************************************************************)
\* iN::MAX of the types named in the num_parsers! invocation.
IntMax(ty) ==
    CASE ty = "Byte" -> <<"1","2","7">>
      [] ty = "Short" -> <<"3","2","7","6","7">>
      [] ty = "Int" -> <<"2","1","4","7","4","8","3","6","4","7">>
      [] ty = "Long" -> <<"9","2","2","3","3","7","2","0","3","6",
                          "8","5","4","7","7","5","8","0","7">>

\* The magnitude of iN::MIN.
IntMinMag(ty) ==
    CASE ty = "Byte" -> <<"1","2","8">>
      [] ty = "Short" -> <<"3","2","7","6","8">>
      [] ty = "Int" -> <<"2","1","4","7","4","8","3","6","4","8">>
      [] ty = "Long" -> <<"9","2","2","3","3","7","2","0","3","6",
                          "8","5","4","7","7","5","8","0","8">>

\* a <= b for magnitudes written without leading zeros.
MagLeq(a, b) ==
    \/ Len(a) < Len(b)
    \/ /\ Len(a) = Len(b)
       /\ \/ a = b
          \/ \E i \in 1..Len(a) :
                /\ DigitVal(a[i]) < DigitVal(b[i])
                /\ \A j \in 1..(i - 1) : a[j] = b[j]

\* acc * 10 + d on magnitudes.
MulAdd(acc, d) == IF acc = <<"0">> THEN <<d>> ELSE Append(acc, d)

RECURSIVE Accumulate(_, _, _, _)
\* The digit loop of from_str_radix: checked_mul(10), then checked_add or
\* checked_sub of the digit; limit is the bound on the side of the sign.
Accumulate(text, i, acc, limit) ==
    IF i > Len(text) THEN [ok |-> TRUE, mag |-> acc]
    ELSE IF text[i] \notin Digits THEN [ok |-> FALSE, mag |-> <<>>]
    ELSE IF MagLeq(MulAdd(acc, text[i]), limit)
         THEN Accumulate(text, i + 1, MulAdd(acc, text[i]), limit)
         ELSE [ok |-> FALSE, mag |-> <<>>]

Signed(neg, r) ==
    IF ~r.ok THEN [ok |-> FALSE, val |-> <<>>]
    ELSE [ok |-> TRUE, val |-> IF neg /\ r.mag # <<"0">> THEN <<"-">> \o r.mag ELSE r.mag]

\* digits.parse::<$type>() for the integer types.
ParseInteger(text, ty) ==
    IF Len(text) = 0 THEN [ok |-> FALSE, val |-> <<>>]
    ELSE IF text[1] = "-"
         THEN IF Len(text) = 1 THEN [ok |-> FALSE, val |-> <<>>]
              ELSE Signed(TRUE, Accumulate(Tail(text), 1, <<"0">>, IntMinMag(ty)))
    ELSE IF text[1] = "+"
         THEN IF Len(text) = 1 THEN [ok |-> FALSE, val |-> <<>>]
              ELSE Signed(FALSE, Accumulate(Tail(text), 1, <<"0">>, IntMax(ty)))
    ELSE Signed(FALSE, Accumulate(text, 1, <<"0">>, IntMax(ty)))

\* digits.parse::<f32|f64>(): the text of a Decimal token is always a valid
\* literal and the conversion never fails; the value is carried as the
\* literal it is the nearest representable value of.
ParseDecimal(text, ty) == [ok |-> TRUE, val |-> text]

(***************************************************************************)
(* Tags: [kind, elem, val, keys, items].  val is the value of a scalar,    *)
(* elem the element kind of a list or array, keys and items the ordered    *)
(* pairs of a compound, items the elements of a list or an array.          *)
(***************************************************************************)
Tag(kind, elem, val, keys, items) ==
    [kind |-> kind, elem |-> elem, val |-> val, keys |-> keys, items |-> items]
NoTag == Tag("None", "", <<>>, <<>>, <<>>)
Scalar(kind, val) == Tag(kind, "", val, <<>>, <<>>)

PFail == [ok |-> FALSE, tag |-> NoTag, next |-> 0]
POk(tag, next) == [ok |-> TRUE, tag |-> tag, next |-> next]

TokAt(toks, i) == IF i >= 1 /\ i <= Len(toks) THEN toks[i] ELSE Tok("End", <<>>, "")

\* Converted with a failed conversion saturated at the largest value.
ConvertedSaturating(kind, v, i) ==
    POk(Scalar(kind, IF v.ok THEN v.val ELSE IntMax(kind)), i + 1)

\* .try_map(...): the conversion of the token's digits, or an error.
Converted(kind, v, i) == IF v.ok THEN POk(Scalar(kind, v.val), i + 1) ELSE PFail

\* num_parsers!: a filter on the token's kind and declared width, then the
\* conversion of its digits.
NumLeaf(kind, toks, i) ==
    IF kind \in {"Byte", "Short", "Int", "Long"}
    THEN IF TokAt(toks, i).kind = "Integer" /\ TokAt(toks, i).sub = kind
         THEN Converted(kind, ParseInteger(TokAt(toks, i).text, kind), i)
         ELSE PFail
    ELSE IF TokAt(toks, i).kind = "Decimal" /\ TokAt(toks, i).sub = kind
         THEN Converted(kind, ParseDecimal(TokAt(toks, i).text, kind), i)
         ELSE PFail

\* BooleanByte with the two bytes exchanged.
BooleanByteInverted(t, i) ==
    IF t.kind = "Boolean" /\ t.sub = "true" THEN POk(Scalar("Byte", <<"0">>), i + 1)
    ELSE IF t.kind = "Boolean" /\ t.sub = "false" THEN POk(Scalar("Byte", <<"1">>), i + 1)
    ELSE PFail

\* choice((filter(Boolean(true)).to(1i8), filter(Boolean(false)).to(0i8)))
BooleanByte(t, i) ==
    IF t.kind = "Boolean" /\ t.sub = "true" THEN POk(Scalar("Byte", <<"1">>), i + 1)
    ELSE IF t.kind = "Boolean" /\ t.sub = "false" THEN POk(Scalar("Byte", <<"0">>), i + 1)
    ELSE PFail

\* let byte = byte.or(choice((Boolean(true) -> 1, Boolean(false) -> 0)))
byte_bool(toks, i) ==
    FirstOk(<<NumLeaf("Byte", toks, i), BooleanByte(TokAt(toks, i), i)>>, PFail)

\* filter(Boolean(_)).map(|token| match token { Boolean(true) => 1, _ => 0 })
AnyBooleanByte(t, i) ==
    IF t.kind = "Boolean"
    THEN POk(Scalar("Byte", IF t.sub = "true" THEN <<"1">> ELSE <<"0">>), i + 1)
    ELSE PFail

\* let byte = byte.or(filter(Boolean(_)).map(...))
byte(toks, i) ==
    FirstOk(<<byte_bool(toks, i), AnyBooleanByte(TokAt(toks, i), i)>>, PFail)

\* StringOf that takes quoted strings only.
StringOfLiteral(t, i) ==
    IF t.kind = "StringLiteral" THEN POk(Scalar("String", t.text), i + 1) ELSE PFail

StringOf(t, i) ==
    IF t.kind \in {"StringLiteral", "Identifier"}
    THEN POk(Scalar("String", t.text), i + 1)
    ELSE PFail

\* let string = filter(StringLiteral | Identifier).map(data)
string(toks, i) == StringOf(TokAt(toks, i), i)

\* ListOrder with the Short production tried first.
ListOrderShortFirst ==
    <<"Short", "Byte", "Int", "Long", "Float", "Double", "ByteArray",
      "String", "List", "Compound", "IntArray", "LongArray">>

\* The per-kind productions of list_maker!, in the order of its invocation.
ListOrder ==
    <<"Byte", "Short", "Int", "Long", "Float", "Double", "ByteArray",
      "String", "List", "Compound", "IntArray", "LongArray">>

\* The alternatives of a value: of a compound member and of the top level.
ValueOrder ==
    <<"Compound", "List", "Byte", "Short", "Int", "Long", "Float", "Double",
      "ByteArray", "IntArray", "LongArray", "String">>

\* ArrayItemKind with the Int element for every array of numbers.
ArrayItemKindInt(ty) == IF ty = "Byte" THEN "ByteOrBoolean" ELSE "Int"

\* The element parser and the Tag of each array_parsers! entry.
ArrayItemKind(ty) == IF ty = "Byte" THEN "ByteOrBoolean" ELSE ty
ArrayKind(ty) ==
    CASE ty = "Byte" -> "ByteArray" [] ty = "Int" -> "IntArray" [] ty = "Long" -> "LongArray"

RECURSIVE Item(_, _, _)
RECURSIVE SepFrom(_, _, _, _)

\* After an attempt r of an item at j: on success a separator leads to the
\* next attempt; on failure the items so far stand, and sep tells that a
\* separator was taken before the failed attempt.
SepStep(r, K, toks, j, acc) ==
    IF r.ok
    THEN IF TokAt(toks, r.next).kind = "Comma"
         THEN SepFrom(K, toks, r.next + 1, Append(acc, r.tag))
         ELSE [items |-> Append(acc, r.tag), next |-> r.next, sep |-> FALSE]
    ELSE [items |-> acc, next |-> j, sep |-> acc # <<>>]

SepFrom(K, toks, j, acc) == SepStep(Item(K, toks, j), K, toks, j, acc)

\* Trailing that gives the separator back in every case.
TrailingNever(r, allow_trailing) ==
    [items |-> r.items, next |-> IF r.sep THEN r.next - 1 ELSE r.next]

\* A separator no item follows stays consumed with allow_trailing() and is
\* given back without it.
Trailing(r, allow_trailing) ==
    [items |-> r.items,
     next |-> IF r.sep /\ ~allow_trailing THEN r.next - 1 ELSE r.next]

\* item.separated_by(just(Token::Comma)), with or without .allow_trailing()
separated_by(K, toks, i, allow_trailing) ==
    Trailing(SepFrom(K, toks, i, <<>>), allow_trailing)

\* The closing delimiter of delimited_by and the Tag of the group.
Closed(r, close, toks, kind, elem) ==
    IF TokAt(toks, r.next).kind = close
    THEN POk(Tag(kind, elem, <<>>, <<>>, r.items), r.next + 1)
    ELSE PFail

\* array_parsers!: item.separated_by(Comma)
\*                     .delimited_by(ArrayStart(ty), CloseBracket)
array(ty, toks, i) ==
    IF TokAt(toks, i).kind = "ArrayStart" /\ TokAt(toks, i).sub = ty
    THEN Closed(separated_by(ArrayItemKind(ty), toks, i + 1, FALSE),
                "CloseBracket", toks, ArrayKind(ty), ty)
    ELSE PFail

\* One production of list_maker!: the items of kind K between the brackets.
ListProduction(K, toks, i) ==
    IF TokAt(toks, i).kind = "OpenBracket"
    THEN Closed(separated_by(K, toks, i + 1, TRUE), "CloseBracket", toks, "List", K)
    ELSE PFail

\* list.define(choice(...)): the first production that parses the group.
list(toks, i) ==
    FirstOk([k \in DOMAIN ListOrder |-> ListProduction(ListOrder[k], toks, i)], PFail)

\* choice((compound, list, byte, ..., string)) of a value.
value(toks, i) ==
    FirstOk([k \in DOMAIN ValueOrder |-> Item(ValueOrder[k], toks, i)], PFail)

MemberOf(k, v) ==
    IF v.ok THEN POk(Tag("Member", "", <<>>, <<k.tag.val>>, <<v.tag>>), v.next) ELSE PFail

MemberValue(k, toks) ==
    IF k.ok /\ TokAt(toks, k.next).kind = "Colon"
    THEN MemberOf(k, value(toks, k.next + 1))
    ELSE PFail

\* string.then_ignore(just(Token::Colon)).then(choice(...))
member(toks, i) == MemberValue(string(toks, i), toks)

\* .map(crate::Map::from_iter): the pairs, in the order parsed.
Pairs(r) ==
    IF r.ok
    THEN POk(Tag("Compound", "", <<>>,
                 [n \in 1..Len(r.tag.items) |-> r.tag.items[n].keys[1]],
                 [n \in 1..Len(r.tag.items) |-> r.tag.items[n].items[1]]),
             r.next)
    ELSE PFail

\* compound.define(...): members separated by Comma, trailing allowed,
\* between the braces.
compound(toks, i) ==
    IF TokAt(toks, i).kind = "OpenBrace"
    THEN Pairs(Closed(separated_by("Member", toks, i + 1, TRUE),
                      "CloseBrace", toks, "Members", ""))
    ELSE PFail

\* The parser named K applied at token i.
Item(K, toks, i) ==
    CASE K = "Byte" -> byte(toks, i)
      [] K = "ByteOrBoolean" -> byte_bool(toks, i)
      [] K \in {"Short", "Int", "Long", "Float", "Double"} -> NumLeaf(K, toks, i)
      [] K = "String" -> string(toks, i)
      [] K = "ByteArray" -> array("Byte", toks, i)
      [] K = "IntArray" -> array("Int", toks, i)
      [] K = "LongArray" -> array("Long", toks, i)
      [] K = "List" -> list(toks, i)
      [] K = "Compound" -> compound(toks, i)
      [] K = "Member" -> member(toks, i)

\* fn parser: the value that starts at the first token.
parser(toks) == value(toks, 1)

(***************************************************************************)
(* fn parse as a function of the text.                                     *)
(***************************************************************************)
Result(kind, tag) == [kind |-> kind, tag |-> tag]
NoResult == Result("None", NoTag)

ParserResult(r) ==
    IF r.ok THEN Result("Tag", r.tag) ELSE Result("ParseFailure", NoTag)

TokensResult(t) ==
    IF t.ok THEN ParserResult(parser(t.toks)) ELSE Result("TokenizeError", NoTag)

parse(s) == TokensResult(TokenParse(s))

(***************************************************************************)
(* The input texts.                                                        *)
(***************************************************************************)
RECURSIVE Texts(_, _)
\* The texts of length at most n over the characters A.
Texts(A, n) ==
    IF n = 0 THEN {<<>>}
    ELSE {<<>>} \cup {<<c>> \o t : c \in A, t \in Texts(A, n - 1)}

RECURSIVE Joined(_, _)
\* The texts made of one to n of the elements E, separated by commas.
Joined(E, n) ==
    IF n <= 1 THEN E
    ELSE E \cup {e \o <<",">> \o t : e \in E, t \in Joined(E, n - 1)}

LexAlphabet == {"1", "0", "b", "d", ".", "-", "[", ";", " "}

\* Texts that exercise each token kind and the boundary between kinds.
LexExamples ==
    { <<"1", "2", "3", ".", "5">>,
      <<"1", "2", "3", "a", "b", "c">>,
      <<"5", "b", "5">>,
      <<"t", "r", "u", "e">>,
      <<"f", "a", "l", "s", "e">>,
      <<"t", "r", "u", "e", "x">>,
      <<"t", "r", "u", "e", ".", "x">>,
      <<"t", "r", "u", "e", "-", "1">>,
      <<"[", "B", ";">>,
      <<"[", "b", ";", "1", "]">>,
      <<"[", "B", " ", ";">>,
      <<"[", "i", ";">>,
      <<"[", "L", ";", "1", "l", "]">>,
      <<"[", "x", ";">>,
      <<"0", "0", "7">>,
      <<"-", "0">>,
      <<"1", " ", "b">>,
      <<"3", "f">>,
      <<"3", "F">>,
      <<"1", ".", "5", "d">>,
      <<"1", ".", "5", ".", "5">>,
      <<"1", ".", "f">>,
      <<"-">>,
      <<"\"", "a", "\"">>,
      <<"'", "a", "'">>,
      <<"\"", "a", "\\", "\"", "b", "\"">>,
      <<"'", "a", "\\", "t", "b", "'">>,
      <<"\"", "a", "\\", "q", "b", "\"">>,
      <<"\"", "a">>,
      <<"'", "\"", "'">>,
      <<"a", "_", "b">>,
      <<"1", ",", "2">>,
      <<"{", "a", ":", "1", "}">>,
      <<" ">>,
      <<" ", " ", "1", " ", " ">>,
      <<"1", ":">>,
      <<"1", "]">>,
      <<"1", "}">>,
      <<"1", "\"", "x", "\"">>,
      <<"-", "1", ".", "5", "f">>,
      <<"1", "_">>,
      <<"1", "+">>,
      <<"0", ".", "5">>,
      <<"0", "0", ".", "5">>,
      <<"1", "e", "5">>,
      <<"1", "s">>,
      <<"1", "S">>,
      <<"1", "l">>,
      <<"1", "L">>,
      <<"1", "B">>,
      <<"1", "2", "b">>,
      <<"t", "r", "u">>,
      <<"{", "}">>,
      <<"[", "]">>,
      <<":", ",">>,
      <<"\"", "\\", "n", "\"">>,
      <<"[", "I", ";", "1", "]">>,
      <<"[", "1", "b", "]">> }

LexTexts == Texts(LexAlphabet, MaxLen) \cup LexExamples

NumDigitChars == {"0", "1", "9"}

\* Digit runs at and around the limits of the four widths, and with leading zeros.
BoundaryDigits ==
    { <<"1", "2", "7">>,
      <<"1", "2", "8">>,
      <<"1", "2", "9">>,
      <<"2", "0", "0">>,
      <<"2", "5", "5">>,
      <<"2", "5", "6">>,
      <<"3", "2", "7", "6", "7">>,
      <<"3", "2", "7", "6", "8">>,
      <<"3", "2", "7", "6", "9">>,
      <<"6", "5", "5", "3", "5">>,
      <<"2", "1", "4", "7", "4", "8", "3", "6", "4", "7">>,
      <<"2", "1", "4", "7", "4", "8", "3", "6", "4", "8">>,
      <<"2", "1", "4", "7", "4", "8", "3", "6", "4", "9">>,
      <<"4", "2", "9", "4", "9", "6", "7", "2", "9", "6">>,
      <<"9", "2", "2", "3", "3", "7", "2", "0", "3", "6", "8", "5", "4", "7", "7", "5", "8", "0", "7">>,
      <<"9", "2", "2", "3", "3", "7", "2", "0", "3", "6", "8", "5", "4", "7", "7", "5", "8", "0", "8">>,
      <<"9", "2", "2", "3", "3", "7", "2", "0", "3", "6", "8", "5", "4", "7", "7", "5", "8", "0", "9">>,
      <<"1", "8", "4", "4", "6", "7", "4", "4", "0", "7", "3", "7", "0", "9", "5", "5", "1", "6", "1", "6">>,
      <<"0", "0", "7">>,
      <<"0", "1", "2", "7">>,
      <<"1", "0", "0", "0", "0", "0", "0", "0", "0", "0", "0", "0", "0", "0", "0", "0", "0", "0", "0", "0", "0">> }

DigitRuns == (Texts(NumDigitChars, MaxDigits) \ {<<>>}) \cup BoundaryDigits

Suffixes == {<<>>, <<"b">>, <<"B">>, <<"s">>, <<"S">>, <<"l">>, <<"L">>}

Signs == {<<>>, <<"-">>}

Literals == {sg \o d \o sf : sg \in Signs, d \in DigitRuns, sf \in Suffixes}

\* A literal on its own, as a list element, as a compound member value, as
\* an element of each typed array, and behind a quote that is never closed.
InContext(c, lit) ==
    CASE c = "top" -> lit
      [] c = "list" -> <<"[">> \o lit \o <<"]">>
      [] c = "list2" -> <<"[", "1", "b", ",">> \o lit \o <<"]">>
      [] c = "member" -> <<"{", "a", ":">> \o lit \o <<"}">>
      [] c = "bytes" -> <<"[", "B", ";">> \o lit \o <<"]">>
      [] c = "ints" -> <<"[", "I", ";">> \o lit \o <<"]">>
      [] c = "longs" -> <<"[", "L", ";">> \o lit \o <<"]">>
      [] c = "open" -> <<"\"">> \o lit

Contexts == {"top", "list", "list2", "member", "bytes", "ints", "longs", "open"}

NumTexts == {InContext(c, lit) : c \in Contexts, lit \in Literals}

\* The elements the generated groups are made of.
ElemTexts ==
    { <<"1", "b">>,
      <<"2", "s">>,
      <<"1">>,
      <<"1", "l">>,
      <<"1", ".", "5">>,
      <<"t", "r", "u", "e">>,
      <<"x">>,
      <<"\"", "x", "\"">>,
      <<"[", "]">>,
      <<"{", "}">>,
      <<"[", "I", ";", "1", "]">> }

\* The openers of a bracketed group.
Openers ==
    { <<"[">>,
      <<"[", "B", ";">>,
      <<"[", "I", ";">>,
      <<"[", "L", ";">> }

Keyed(E) == {<<"a", ":">> \o e : e \in E}

Trailers == {<<>>, <<",">>}

GroupTexts ==
    {o \o body \o tr \o <<"]">> :
        o \in Openers, body \in Joined(ElemTexts, MaxElems), tr \in Trailers}
    \cup
    {<<"{">> \o body \o tr \o <<"}">> :
        body \in Joined(Keyed(ElemTexts), MaxElems), tr \in Trailers}

\* The texts of the documentation and of the tests, and malformed variants.
GrammarExamples ==
    { <<"[", "1", "b", ",", "2", "b", ",", "3", "b", "]">>,
      <<"[", "1", "b", ",", " ", "2", "s", "]">>,
      <<"[", "B", ";", " ", "t", "r", "u", "e", ",", " ", "f", "a", "l", "s", "e", ",", " ", "5", "b", "]">>,
      <<"[", "B", ";", " ", "1", ",", "2", ",", "]">>,
      <<"[", "I", ";", " ", "t", "r", "u", "e", "]">>,
      <<"[", "L", ";", " ", "f", "a", "l", "s", "e", "]">>,
      <<"{", "a", ":", "\"", "x", "\"", "}">>,
      <<"{", "a", ":", "x", "}">>,
      <<"{", "\"", "a", "\"", ":", "1", ",", "\"", "b", "\"", ":", "2", ",", "}">>,
      <<"{", "\"", "a", "\"", ":", "1", ",", "\"", "b", "\"", ":", "2", "}">>,
      <<"2", "0", "0", "b">>,
      <<"[", "2", "0", "0", "b", "]">>,
      <<"{", "a", ":", "2", "0", "0", "b", "}">>,
      <<"[", "B", ";", "2", "0", "0", "b", "]">>,
      <<"t", "r", "u", "e">>,
      <<"f", "a", "l", "s", "e">>,
      <<"[", "t", "r", "u", "e", "]">>,
      <<"[", "t", "r", "u", "e", ",", "f", "a", "l", "s", "e", "]">>,
      <<"[", "t", "r", "u", "e", ",", "1", "b", "]">>,
      <<"[", "1", "s", ",", "t", "r", "u", "e", "]">>,
      <<"{", "a", ":", "t", "r", "u", "e", "}">>,
      <<"{", "t", "r", "u", "e", ":", "1", "}">>,
      <<"[", "L", ";", " ", "1", "]">>,
      <<"[", "B", ";", " ", "1", "]">>,
      <<"[", "I", ";", " ", "1", "l", "]">>,
      <<"[", "I", ";", " ", "3", ",", " ", "5", ",", " ", "1", "]">>,
      <<"[", "L", ";", " ", "3", "l", ",", " ", "4", "l", ",", " ", "5", "l", "]">>,
      <<"[", "4", "b", ",", " ", "3", "b", ",", " ", "2", "b", "]">>,
      <<"[", ",", "]">>,
      <<"[", "1", ",", ",", "]">>,
      <<"[", "[", "]", ",", "[", "1", "]", "]">>,
      <<"[", "[", "1", "b", "]", ",", "[", "2", "s", "]", "]">>,
      <<"[", "[", "1", ",", "]", ",", "]">>,
      <<"[", "{", "}", ",", "{", "a", ":", "1", ",", "}", ",", "]">>,
      <<"{", "a", ":", "[", "1", ",", "]", ",", "}">>,
      <<"{", "a", ":", "[", "B", ";", "1", "b", ",", "]", "}">>,
      <<"[", "[", "I", ";", "1", ",", "]", "]">>,
      <<"[", "x", ",", "\"", "y", "\"", ",", "'", "z", "'", "]">>,
      <<"{", "'", "a", "'", ":", "'", "x", "'", "}">>,
      <<"x">>,
      <<"\"", "x", "\"">>,
      <<"'", "x", "'">>,
      <<"[", "x", "]">>,
      <<"[", "\"", "x", "\"", "]">>,
      <<"{", "a", ":", "{", "b", ":", "\"", "c", "\"", "}", "}">>,
      <<"{", "a", ":", "{", "b", ":", "c", "}", "}">>,
      <<"1", " ", "2">>,
      <<"{", "a", ":", "1", "}", " ", "x">>,
      <<"1", "b", ",">>,
      <<"\"", "a", "\"", "b">>,
      <<"1", "\"", "b", "\"">>,
      <<"[">>,
      <<"{">>,
      <<"{", "a">>,
      <<"{", "a", ":">>,
      <<"{", "a", ":", "1">>,
      <<"[", "1">>,
      <<"[", "1", ",">>,
      <<"]">>,
      <<"}">>,
      <<"[", "B", ";", "]">>,
      <<"[", "I", ";", "]">>,
      <<"[", "L", ";", "]">>,
      <<"[", "B", ";", "1", "b", ",", "2", "b", "]">>,
      <<"{", "a", ":", "1", ",", "a", ":", "2", "}">>,
      <<"{", "a", ":", "1", " ", "b", ":", "2", "}">>,
      <<"[", "1", " ", "2", "]">>,
      <<"{", "\"", "a", " ", "b", "\"", ":", "1", "}">>,
      <<"{", "a", ":", "[", "]", ",", "b", ":", "{", "}", "}">>,
      <<"[", "1", ".", "5", ",", "2", ".", "5", "]">>,
      <<"[", "3", "f", ",", "1", ".", "5", "]">>,
      <<"[", "1", ".", "5", ",", "3", "f", "]">>,
      <<"[", "3", "f", "]">>,
      <<"{", "a", ":", "3", "f", "}">>,
      <<"[", "[", "B", ";", "1", "b", "]", ",", "[", "B", ";", "]", "]">>,
      <<"[", "[", "I", ";", "1", "]", ",", "[", "L", ";", "1", "l", "]", "]">>,
      <<"[", "[", "L", ";", "1", "l", "]", "]">>,
      <<"{", "}">>,
      <<"[", "]">>,
      <<"[", " ", "]">>,
      <<"{", " ", "}">>,
      <<"[", "1", ",", "2", "s", "]">>,
      <<"[", "1", "l", ",", "1", "]">>,
      <<"[", "x", ",", "1", "]">>,
      <<"[", "{", "}", "]">>,
      <<"[", "{", "}", ",", "[", "]", "]">>,
      <<"[", "[", "]", ",", "{", "}", "]">>,
      <<"{", "a", ":", "1", ",", "}">>,
      <<"[", "B", ";", "t", "r", "u", "e", ",", "]">>,
      <<"[", "I", ";", "1", ",", "]">>,
      <<"[", "L", ";", "1", "l", ",", "]">>,
      <<"[", "B", " ", ";", "1", "b", "]">>,
      <<"{", "a", ";", "1", "}">>,
      <<"{", "a", ":", "\"", "x", "}">>,
      <<"[", "I", ";", "t", "r", "u", "e", ",", "1", "]">>,
      <<"[", "L", ";", "1", "l", ",", "t", "r", "u", "e", "]">>,
      <<"[", "I", ";", "1", ",", "f", "a", "l", "s", "e", "]">>,
      <<"[", "B", ";", "1", "b", ",", "1", "]">>,
      <<"[", "L", ";", "1", "l", ",", "1", "]">>,
      <<"[", "B", ";", "5", "b", ",", "t", "r", "u", "e", "]">>,
      <<"{", "a", ":", "[", "I", ";", "t", "r", "u", "e", "]", "}">>,
      <<"[", "[", "L", ";", "t", "r", "u", "e", "]", "]">>,
      <<"t", "r", "u", "e", ".", "x">>,
      <<"[", "t", "r", "u", "e", ".", "x", "]">>,
      <<"{", ".", "x", ":", "1", "}">>,
      <<"{", "a", ":", ".", "x", "}">>,
      <<"{", "a", ":", "1", ",", "}", "x">>,
      <<"[", "]", "x">> }

GrammarTexts == GroupTexts \cup ElemTexts \cup GrammarExamples

(***************************************************************************)
(* One call of parse(source), a step at a time: the lexer takes one padded *)
(* token per step; when it stops, either the whole text was tokenized and  *)
(* the grammar runs on the tokens, or the call returns TokenizeError.      *)
(***************************************************************************)
InitOn(S) ==
    /\ source \in S
    /\ pc = "lex"
    /\ pos = 1
    /\ tokens = <<>>
    /\ spans = <<>>
    /\ result = NoResult
    /\ consumed = 0
    /\ grammarRan = FALSE

\* .repeated(): one more padded token r.
TokenTaken(r) ==
    /\ r.ok
    /\ tokens' = Append(tokens, r.tok)
    /\ spans' = Append(spans, <<r.start, r.last>>)
    /\ pos' = r.next

LexToken ==
    /\ pc = "lex"
    /\ TokenTaken(PaddedToken(source, pos))
    /\ UNCHANGED <<source, pc, result, consumed, grammarRan>>

\* AtEnd without the demand for a token.
AtEndNoMin == pos > Len(source)

\* .at_least(1).then_ignore(end()) on the tokens taken so far.
AtEnd == Len(tokens) >= 1 /\ pos > Len(source)

\* No further token, and Token::parse answers Ok(tokens): the Ok arm of
\* parse() is entered.
LexEnd ==
    /\ pc = "lex"
    /\ ~PaddedToken(source, pos).ok
    /\ AtEnd
    /\ pc' = "grammar"
    /\ UNCHANGED <<source, pos, tokens, spans, result, consumed, grammarRan>>

\* No further token, and Token::parse answers Err(errors):
\* Err(ParseError::TokenizeError(errors)).
LexFail ==
    /\ pc = "lex"
    /\ ~PaddedToken(source, pos).ok
    /\ ~AtEnd
    /\ result' = Result("TokenizeError", NoTag)
    /\ pc' = "done"
    /\ UNCHANGED <<source, pos, tokens, spans, consumed, grammarRan>>

GrammarStep(r) ==
    /\ result' = ParserResult(r)
    /\ consumed' = IF r.ok THEN r.next - 1 ELSE 0

\* match parser().parse(tokens): Ok(tag) or Err(ParseError::ParseFailure).
Grammar ==
    /\ pc = "grammar"
    /\ GrammarStep(parser(tokens))
    /\ grammarRan' = TRUE
    /\ pc' = "done"
    /\ UNCHANGED <<source, pos, tokens, spans>>

Next == LexToken \/ LexEnd \/ LexFail \/ Grammar

Init == InitOn(LexTexts \cup NumTexts \cup GrammarTexts)
Spec == Init /\ [][Next]_vars

InitLex == InitOn(LexTexts)
SpecLex == InitLex /\ [][Next]_vars

InitNum == InitOn(NumTexts)
SpecNum == InitNum /\ [][Next]_vars

InitGrammar == InitOn(GrammarTexts)
SpecGrammar == InitGrammar /\ [][Next]_vars

(***************************************************************************)
(* Vocabulary of the properties, stated on texts and token sequences       *)
(* without the parsers above.                                              *)
(***************************************************************************)
Done == pc = "done"

\* A sign and digits: an optional '-' and one or more decimal digits.
IsSignedDigits(d) ==
    /\ Len(d) >= 1
    /\ \/ d[1] = "-" /\ Len(d) >= 2 /\ \A n \in 2..Len(d) : d[n] \in Digits
       \/ \A n \in 1..Len(d) : d[n] \in Digits

IsNegative(d) == Len(d) >= 1 /\ d[1] = "-"
DigitsOf(d) == IF IsNegative(d) THEN Tail(d) ELSE d

RECURSIVE StripZeros(_)
\* A digit run without its leading zeros; "0" for a run of zeros.
StripZeros(m) ==
    IF Len(m) > 1 /\ m[1] = "0" THEN StripZeros(Tail(m)) ELSE m

\* The mathematical value of a sign and digits, as canonical decimal text.
MathValue(d) ==
    IF StripZeros(DigitsOf(d)) = <<"0">> THEN <<"0">>
    ELSE IF IsNegative(d) THEN <<"-">> \o StripZeros(DigitsOf(d))
    ELSE StripZeros(DigitsOf(d))

\* 2^(w-1) for the bit width w of each integer kind (8, 16, 32, 64), as
\* decimal text: 2^7, 2^15, 2^31 and 2^63.
HalfRange(kind) ==
    CASE kind = "Byte" -> <<"1","2","8">>
      [] kind = "Short" -> <<"3","2","7","6","8">>
      [] kind = "Int" -> <<"2","1","4","7","4","8","3","6","4","8">>
      [] kind = "Long" -> <<"9","2","2","3","3","7","2","0","3","6",
                            "8","5","4","7","7","5","8","0","8">>

\* a < b on magnitudes without leading zeros.
MagLess(a, b) ==
    \/ Len(a) < Len(b)
    \/ /\ Len(a) = Len(b)
       /\ \E i \in 1..Len(a) :
             /\ DigitVal(a[i]) < DigitVal(b[i])
             /\ \A j \in 1..(i - 1) : a[j] = b[j]

\* -2^(w-1) <= value(d) <= 2^(w-1) - 1 for the width w of the kind.
Fits(kind, d) ==
    \/ MagLess(StripZeros(DigitsOf(d)), HalfRange(kind))
    \/ IsNegative(d) /\ StripZeros(DigitsOf(d)) = HalfRange(kind)

SuffixLetters == {"b", "B", "s", "S", "l", "L"}

\* The kind a suffix names.
KindOfSuffix(sf) ==
    CASE sf = <<>> -> "Int"
      [] sf \in {<<"b">>, <<"B">>} -> "Byte"
      [] sf \in {<<"s">>, <<"S">>} -> "Short"
      [] sf \in {<<"l">>, <<"L">>} -> "Long"

\* The split of a text d+s into d and s.
SuffixOf(t) == IF Len(t) >= 1 /\ t[Len(t)] \in SuffixLetters THEN <<t[Len(t)]>> ELSE <<>>
BodyOf(t) == SubSeq(t, 1, Len(t) - Len(SuffixOf(t)))

IsIntegerLiteral(t) == IsSignedDigits(BodyOf(t))

\* A digit run that is "0" or does not start with '0'.
NoLeadingZero(d) == DigitsOf(d) = <<"0">> \/ DigitsOf(d)[1] # "0"

Openers_ == {"OpenBracket", "OpenBrace", "ArrayStart"}
Closers_ == {"CloseBracket", "CloseBrace"}

\* Openers minus closers among toks[a..b].
Balance(toks, a, b) ==
    Cardinality({n \in a..b : toks[n].kind \in Openers_})
    - Cardinality({n \in a..b : toks[n].kind \in Closers_})

\* The closer that matches the opener at i, or 0.
MatchingClose(toks, i) ==
    IF \E c \in (i + 1)..Len(toks) : Balance(toks, i, c) = 0
    THEN CHOOSE c \in (i + 1)..Len(toks) :
            /\ Balance(toks, i, c) = 0
            /\ \A n \in (i + 1)..(c - 1) : Balance(toks, i, n) # 0
    ELSE 0

\* The opener of the innermost group that token k lies in, or 0.
EnclosingOpener(toks, k) ==
    IF \E j \in 1..(k - 1) : toks[j].kind \in Openers_
                              /\ (MatchingClose(toks, j) = 0 \/ MatchingClose(toks, j) >= k)
    THEN CHOOSE j \in 1..(k - 1) :
            /\ toks[j].kind \in Openers_
            /\ (MatchingClose(toks, j) = 0 \/ MatchingClose(toks, j) >= k)
            /\ \A n \in (j + 1)..(k - 1) :
                  ~(toks[n].kind \in Openers_
                    /\ (MatchingClose(toks, n) = 0 \/ MatchingClose(toks, n) >= k))
    ELSE 0

\* The last token of the value that begins at the first token: the first
\* token itself, or the closer of the group it opens (the last token of
\* all when that group is never closed).
LeadingExtent(toks) ==
    IF toks = <<>> THEN 0
    ELSE IF toks[1].kind \in Openers_
         THEN IF MatchingClose(toks, 1) = 0 THEN Len(toks) ELSE MatchingClose(toks, 1)
         ELSE 1

\* An Integer token whose value lies outside the range of its width.
OutOfRange(t) == t.kind = "Integer" /\ ~Fits(t.sub, t.text)

(***************************************************************************)
(* C1.  As claimed: for every d made of an optional '-' and one or more    *)
(* decimal digits and every suffix s in {"", b, B, s, S, l, L}, parse(d+s) *)
(* returns the integer Tag of the kind the suffix names, holding exactly   *)
(* the mathematical value of d, whenever that value fits the kind's width. *)
(* This fails for digits with a leading zero ("007"): text::int(10) takes  *)
(* only "0" or a run that starts with a non-zero digit, so the text is an  *)
(* Identifier and parse returns a String.                                  *)
(***************************************************************************)
C1_Original ==
    (Done /\ IsIntegerLiteral(source) /\ Fits(KindOfSuffix(SuffixOf(source)), BodyOf(source)))
    => result = Result("Tag", Scalar(KindOfSuffix(SuffixOf(source)), MathValue(BodyOf(source))))

\* C1, amended: the same for every d made of an optional '-' and either
\* the single digit 0 or a run of decimal digits that does not start with
\* 0: parse(d+s) is the integer Tag of the suffix's kind with exactly the
\* value of d, whenever the value fits the width.
C1_Amended ==
    (/\ Done
     /\ IsIntegerLiteral(source)
     /\ NoLeadingZero(BodyOf(source))
     /\ Fits(KindOfSuffix(SuffixOf(source)), BodyOf(source)))
    => result = Result("Tag", Scalar(KindOfSuffix(SuffixOf(source)), MathValue(BodyOf(source))))

\* The smallest 64-bit value, with the Long suffix, has been parsed.
C1_Witness ==
    /\ Done
    /\ IsIntegerLiteral(source)
    /\ KindOfSuffix(SuffixOf(source)) = "Long"
    /\ BodyOf(source) = <<"-">> \o HalfRange("Long")
    /\ result.kind = "Tag"

(***************************************************************************)
(* C2.  An integer literal whose value lies outside the signed range of    *)
(* its declared width never produces a Tag: when such a literal is the     *)
(* value at the top level or lies in the group that value opens (as a list *)
(* or array element or a compound member value, at any depth), parse       *)
(* returns ParseFailure; no wrapped, clamped or widened number and no      *)
(* String comes back.                                                      *)
(***************************************************************************)
C2_OutOfRangeFails ==
    (Done /\ grammarRan)
    => \A k \in 1..LeadingExtent(tokens) :
          OutOfRange(tokens[k]) => result = Result("ParseFailure", NoTag)

\* A byte literal beyond 127 was met inside a compound and the call has
\* returned.
C2_Witness ==
    /\ Done
    /\ Len(tokens) >= 4
    /\ tokens[1].kind = "OpenBrace"
    /\ OutOfRange(tokens[4]) /\ tokens[4].sub = "Byte"
    /\ result.kind = "ParseFailure"

(***************************************************************************)
(* The scalar leaves of a tree in text order (a compound's keys are String *)
(* leaves), to be set against the scalar tokens they were read from.       *)
(***************************************************************************)
ScalarTags == {"Byte", "Short", "Int", "Long", "Float", "Double", "String"}
ScalarTokens == {"Boolean", "Integer", "Decimal", "Identifier", "StringLiteral"}

RECURSIVE Leaves(_)
RECURSIVE LeavesFrom(_, _)
Leaves(tag) == IF tag.kind \in ScalarTags THEN <<tag>> ELSE LeavesFrom(tag, 1)

LeavesFrom(tag, n) ==
    IF n > Len(tag.items) THEN <<>>
    ELSE (IF tag.kind = "Compound" THEN <<Scalar("String", tag.keys[n])>> ELSE <<>>)
         \o Leaves(tag.items[n]) \o LeavesFrom(tag, n + 1)

IsScalarToken(t) == t.kind \in ScalarTokens
ScalarToks(toks, n) == SelectSeq(SubSeq(toks, 1, n), IsScalarToken)

\* The byte a Boolean token stands for.
ByteOfBoolean(t) == Scalar("Byte", IF t.sub = "true" THEN <<"1">> ELSE <<"0">>)

\* toks is an opener, Booleans separated by commas, and a CloseBracket.
BooleanGroup(toks) ==
    /\ Len(toks) >= 3 /\ Len(toks) % 2 = 1
    /\ toks[Len(toks)].kind = "CloseBracket"
    /\ \A n \in 2..(Len(toks) - 1) :
          toks[n].kind = IF n % 2 = 0 THEN "Boolean" ELSE "Comma"

(***************************************************************************)
(* C3.  A Boolean token is accepted only where a Byte value is accepted:   *)
(* as the value at the top level it is accepted, and so is a group of      *)
(* Booleans opened by '[' or by ArrayStart(Byte); every Boolean token of   *)
(* an accepted text is the byte 1 (true) or 0 (false) in the tree, never a *)
(* Tag of another kind; and a Boolean token directly inside an Int or Long *)
(* array makes parse return ParseFailure.                                  *)
(***************************************************************************)
C3_BooleanIsByte ==
    /\ (Done /\ result.kind = "Tag")
       => /\ Len(Leaves(result.tag)) = Len(ScalarToks(tokens, LeadingExtent(tokens)))
          /\ \A n \in 1..Len(Leaves(result.tag)) :
                ScalarToks(tokens, LeadingExtent(tokens))[n].kind = "Boolean"
                => Leaves(result.tag)[n]
                   = ByteOfBoolean(ScalarToks(tokens, LeadingExtent(tokens))[n])
    /\ (Done /\ grammarRan /\ tokens[1].kind = "Boolean")
       => result = Result("Tag", ByteOfBoolean(tokens[1]))
    /\ (Done /\ grammarRan /\ BooleanGroup(tokens)
        /\ (tokens[1].kind = "OpenBracket"
            \/ (tokens[1].kind = "ArrayStart" /\ tokens[1].sub = "Byte")))
       => /\ result.kind = "Tag"
          /\ result.tag.kind = IF tokens[1].kind = "OpenBracket" THEN "List" ELSE "ByteArray"
          /\ result.tag.elem = "Byte"
    /\ (Done /\ grammarRan)
       => \A k \in 2..LeadingExtent(tokens) :
             (/\ tokens[k].kind = "Boolean"
              /\ EnclosingOpener(tokens, k) # 0
              /\ tokens[EnclosingOpener(tokens, k)].kind = "ArrayStart"
              /\ tokens[EnclosingOpener(tokens, k)].sub \in {"Int", "Long"})
             => result = Result("ParseFailure", NoTag)

\* A byte array with a Boolean element has been parsed.
C3_Witness ==
    /\ Done
    /\ result.kind = "Tag" /\ result.tag.kind = "ByteArray"
    /\ \E k \in DOMAIN tokens : tokens[k].kind = "Boolean" /\ tokens[k].sub = "false"
    /\ \E n \in DOMAIN result.tag.items : result.tag.items[n] = Scalar("Byte", <<"0">>)

\* A Boolean inside a Long array has been refused.
C3_WitnessRefused ==
    /\ Done
    /\ tokens[1] = Tok("ArrayStart", <<>>, "Long")
    /\ Len(tokens) >= 2 /\ tokens[2].kind = "Boolean"
    /\ result.kind = "ParseFailure"

(***************************************************************************)
(* The elements of the bracketed group that token i opens and token c      *)
(* closes: the runs of tokens between the commas of the group itself, a    *)
(* comma right before the closer being dropped when something precedes it. *)
(***************************************************************************)
GroupComma(toks, i, n) == toks[n].kind = "Comma" /\ Balance(toks, i, n) = 1

LastOfBody(toks, i, c) ==
    IF c - 1 > i + 1 /\ GroupComma(toks, i, c - 1) THEN c - 2 ELSE c - 1

NextComma(toks, i, a, last) ==
    IF \E n \in a..last : GroupComma(toks, i, n)
    THEN CHOOSE n \in a..last :
            GroupComma(toks, i, n) /\ \A m \in a..(n - 1) : ~GroupComma(toks, i, m)
    ELSE 0

RECURSIVE SplitFrom(_, _, _, _)
SplitAt(toks, i, a, last, n) ==
    IF n = 0 THEN <<SubSeq(toks, a, last)>>
    ELSE <<SubSeq(toks, a, n - 1)>> \o SplitFrom(toks, i, n + 1, last)
SplitFrom(toks, i, a, last) == SplitAt(toks, i, a, last, NextComma(toks, i, a, last))

Elements(toks, i, c) ==
    IF LastOfBody(toks, i, c) < i + 1 THEN <<>>
    ELSE SplitFrom(toks, i, i + 1, LastOfBody(toks, i, c))

\* The production of kind K parses the whole of the element e.
Admits(K, e) == Item(K, e, 1).ok /\ Item(K, e, 1).next = Len(e) + 1

\* The order of the twelve productions as the documentation gives it.
StatedListOrder ==
    <<"Byte", "Short", "Int", "Long", "Float", "Double", "ByteArray",
      "String", "List", "Compound", "IntArray", "LongArray">>

AdmitsAll(k, es) == \A n \in DOMAIN es : Admits(StatedListOrder[k], es[n])

\* The first production that admits every element, or 0.
FirstAdmitting(es) ==
    IF \E k \in DOMAIN StatedListOrder : AdmitsAll(k, es)
    THEN CHOOSE k \in DOMAIN StatedListOrder :
            AdmitsAll(k, es) /\ \A m \in 1..(k - 1) : ~AdmitsAll(m, es)
    ELSE 0

ListOf(K, es, c) ==
    POk(Tag("List", K, <<>>, <<>>, [n \in DOMAIN es |-> Item(K, es[n], 1).tag]), c + 1)

ExpectedList(k, es, c) == IF k = 0 THEN PFail ELSE ListOf(StatedListOrder[k], es, c)

\* Token i opens a group that a CloseBracket closes.
BracketGroup(toks, i) ==
    /\ toks[i].kind = "OpenBracket"
    /\ MatchingClose(toks, i) # 0
    /\ toks[MatchingClose(toks, i)].kind = "CloseBracket"

GroupAgrees(toks, i, es) ==
    list(toks, i) = ExpectedList(FirstAdmitting(es), es, MatchingClose(toks, i))

(***************************************************************************)
(* C4.  For every group OpenBracket ... CloseBracket the list is the one   *)
(* of the first production, in the order Byte, Short, Int, Long, Float,    *)
(* Double, ByteArray, String, List, Compound, IntArray, LongArray, under   *)
(* which every element of the group parses, and the list fails when no     *)
(* production admits every element.  An accepted non-empty list has the    *)
(* kind of its first element, the empty group is a Byte list, and the      *)
(* result of a text that begins with '[' is that of its list.              *)
(***************************************************************************)
C4_ListKind ==
    (Done /\ grammarRan) =>
       /\ \A i \in DOMAIN tokens :
             BracketGroup(tokens, i)
             => /\ GroupAgrees(tokens, i, Elements(tokens, i, MatchingClose(tokens, i)))
                /\ (list(tokens, i).ok /\ list(tokens, i).tag.items # <<>>)
                   => /\ value(tokens, i + 1).ok
                      /\ list(tokens, i).tag.elem = value(tokens, i + 1).tag.kind
                      /\ \A n \in DOMAIN list(tokens, i).tag.items :
                            list(tokens, i).tag.items[n].kind = list(tokens, i).tag.elem
                /\ MatchingClose(tokens, i) = i + 1
                   => list(tokens, i) = POk(Tag("List", "Byte", <<>>, <<>>, <<>>), i + 2)
       /\ tokens[1].kind = "OpenBracket" => result = ParserResult(list(tokens, 1))
       /\ (tokens[1].kind = "OpenBracket" /\ ~BracketGroup(tokens, 1))
          => result = Result("ParseFailure", NoTag)

\* A list of two elements of one kind has been accepted.
C4_Witness ==
    /\ Done
    /\ tokens[1].kind = "OpenBracket"
    /\ result.kind = "Tag" /\ result.tag.kind = "List" /\ result.tag.elem = "Short"
    /\ Len(result.tag.items) = 2

\* A list of elements of differing kinds has been refused.
C4_WitnessMixed ==
    /\ Done
    /\ Len(tokens) = 5
    /\ tokens[1].kind = "OpenBracket"
    /\ tokens[2] = Tok("Integer", <<"1">>, "Byte")
    /\ tokens[4] = Tok("Integer", <<"2">>, "Short")
    /\ result = Result("ParseFailure", NoTag)

\* The empty group has been accepted.
C4_WitnessEmpty ==
    /\ Done
    /\ Len(tokens) = 2 /\ tokens[1].kind = "OpenBracket"
    /\ result = Result("Tag", Tag("List", "Byte", <<>>, <<>>, <<>>))

(***************************************************************************)
(* The elements a typed array admits, read off the text: token k is an     *)
(* Integer token spelled with the suffix of the array's kind (none for an  *)
(* Int array) whose value fits the kind, or a Boolean in a Byte array.     *)
(***************************************************************************)
LastCharOf(k) == source[spans[k][2]]

SpelledAs(ty, k) ==
    CASE ty = "Byte" -> LastCharOf(k) \in {"b", "B"}
      [] ty = "Int" -> LastCharOf(k) \in Digits
      [] ty = "Long" -> LastCharOf(k) \in {"l", "L"}

ElementOf(ty, k) ==
    \/ tokens[k].kind = "Integer" /\ SpelledAs(ty, k) /\ Fits(ty, tokens[k].text)
    \/ ty = "Byte" /\ tokens[k].kind = "Boolean"

ElementValue(ty, k) ==
    IF tokens[k].kind = "Boolean" THEN ByteOfBoolean(tokens[k])
    ELSE Scalar(ty, MathValue(tokens[k].text))

\* The first CloseBracket after token i, or 0.
FirstClose(i) ==
    IF \E c \in (i + 1)..Len(tokens) : tokens[c].kind = "CloseBracket"
    THEN CHOOSE c \in (i + 1)..Len(tokens) :
            /\ tokens[c].kind = "CloseBracket"
            /\ \A n \in (i + 1)..(c - 1) : tokens[n].kind # "CloseBracket"
    ELSE 0

\* Between i and c: nothing, or elements of the kind separated by single
\* commas, with no comma before the closer.
ArrayBody(ty, i, c) ==
    /\ c # 0
    /\ \/ c = i + 1
       \/ /\ (c - i) % 2 = 0
          /\ \A n \in (i + 1)..(c - 1) :
                IF (n - i) % 2 = 1 THEN ElementOf(ty, n) ELSE tokens[n].kind = "Comma"

StatedArrayKind(ty) ==
    CASE ty = "Byte" -> "ByteArray" [] ty = "Int" -> "IntArray" [] ty = "Long" -> "LongArray"

ExpectedArray(ty, i, c) ==
    IF ArrayBody(ty, i, c)
    THEN POk(Tag(StatedArrayKind(ty), ty, <<>>, <<>>,
                 [m \in 1..((c - i) \div 2) |-> ElementValue(ty, i + 2 * m - 1)]),
             c + 1)
    ELSE PFail

C5_WitnessAccepted ==
    /\ Done
    /\ tokens[1] = Tok("ArrayStart", <<>>, "Long")
    /\ result.kind = "Tag" /\ result.tag.kind = "LongArray"
    /\ Len(result.tag.items) = 3

(***************************************************************************)
(* A trailing comma: token k is a comma, the token after it closes the     *)
(* group the comma lies in, and the token before it is neither the opener  *)
(* of that group nor another comma.                                        *)
(***************************************************************************)
TrailingComma(k) ==
    /\ k >= 3 /\ k < Len(tokens)
    /\ tokens[k].kind = "Comma"
    /\ tokens[k - 1].kind # "Comma"
    /\ EnclosingOpener(tokens, k) # 0
    /\ EnclosingOpener(tokens, k) # k - 1
    /\ MatchingClose(tokens, EnclosingOpener(tokens, k)) = k + 1

\* The text without its character at position p.
Without(s, p) == SubSeq(s, 1, p - 1) \o SubSeq(s, p + 1, Len(s))

(***************************************************************************)
(* C6.  A single comma between the last element and the closing delimiter  *)
(* is accepted in a list and in a compound: the result is that of the same *)
(* text without the comma, and a compound with a trailing comma after two  *)
(* members has exactly those two entries in order.  In a Byte, Int or Long *)
(* array the comma makes parse return ParseFailure.                        *)
(***************************************************************************)
C6_TrailingComma ==
    (Done /\ grammarRan) =>
       /\ \A k \in DOMAIN tokens :
             TrailingComma(k)
             => IF tokens[EnclosingOpener(tokens, k)].kind = "ArrayStart"
                THEN k <= LeadingExtent(tokens) => result = Result("ParseFailure", NoTag)
                ELSE result = parse(Without(source, spans[k][1]))
       /\ source = <<"{", "\"", "a", "\"", ":", "1", ",", "\"", "b", "\"", ":", "2", ",", "}">>
          => result = Result("Tag", Tag("Compound", "", <<>>, <<<<"a">>, <<"b">>>>,
                                        <<Scalar("Int", <<"1">>), Scalar("Int", <<"2">>)>>))

\* A list with a trailing comma has been accepted.
C6_Witness ==
    /\ Done
    /\ tokens[1].kind = "OpenBracket"
    /\ Len(tokens) = 6 /\ TrailingComma(5)
    /\ result.kind = "Tag" /\ Len(result.tag.items) = 2

\* A compound with a trailing comma has been accepted.
C6_WitnessCompound ==
    /\ Done
    /\ tokens[1].kind = "OpenBrace"
    /\ Len(tokens) = 10 /\ TrailingComma(9)
    /\ result.kind = "Tag" /\ Len(result.tag.items) = 2

\* A typed array with a trailing comma has been refused.
C6_WitnessArray ==
    /\ Done
    /\ tokens[1].kind = "ArrayStart"
    /\ Len(tokens) = 4 /\ TrailingComma(3)
    /\ result = Result("ParseFailure", NoTag)

(***************************************************************************)
(* The text with the characters a..b replaced by r, and a word in quotes.  *)
(***************************************************************************)
Replaced(s, a, b, r) == SubSeq(s, 1, a - 1) \o r \o SubSeq(s, b + 1, Len(s))
InQuotes(q, w) == <<q>> \o w \o <<q>>
SpanText(k) == SubSeq(source, spans[k][1], spans[k][2])
Inside(k) == SubSeq(source, spans[k][1] + 1, spans[k][2] - 1)

\* The text in which the word of token k stands in quotes q.
QuotedAt(k, q) == Replaced(source, spans[k][1], spans[k][2], InQuotes(q, SpanText(k)))

\* The text in which the quoted word of token k stands bare.
BareAt(k) == Replaced(source, spans[k][1], spans[k][2], Inside(k))

\* Token k is a quoted word that, written bare in the same place, is the
\* Identifier token k of the text, the other tokens being the same.
QuotedWord(k) ==
    /\ tokens[k].kind = "StringLiteral"
    /\ Inside(k) # <<>>
    /\ TokenParse(BareAt(k)).ok
    /\ TokenParse(BareAt(k)).toks = [tokens EXCEPT ![k] = Tok("Identifier", Inside(k), "")]

(***************************************************************************)
(* C7.  Quoted and bare strings are equivalent: where a word w is an       *)
(* Identifier token of the text, writing "w" or 'w' in its place gives the *)
(* same result, and where a quoted word stands for such a token, writing   *)
(* it bare gives the same result; a word or quoted word as the first token *)
(* is the String of its characters, and {a:"x"} and {a:x} parse to the     *)
(* same compound.                                                          *)
(***************************************************************************)
C7_QuotedEqualsBare ==
    (Done /\ grammarRan) =>
       /\ \A k \in DOMAIN tokens :
             /\ tokens[k].kind = "Identifier"
                => /\ parse(QuotedAt(k, "\"")) = result
                   /\ parse(QuotedAt(k, "'")) = result
             /\ QuotedWord(k) => parse(BareAt(k)) = result
       /\ tokens[1].kind = "Identifier"
          => result = Result("Tag", Scalar("String", SpanText(1)))
       /\ QuotedWord(1) => result = Result("Tag", Scalar("String", Inside(1)))
       /\ source = <<"{", "a", ":", "\"", "x", "\"", "}">>
          => /\ result = parse(<<"{", "a", ":", "x", "}">>)
             /\ result = Result("Tag", Tag("Compound", "", <<>>, <<<<"a">>>>,
                                           <<Scalar("String", <<"x">>)>>))

\* A compound with a bare key and a bare value has been parsed.
C7_Witness ==
    /\ Done
    /\ Len(tokens) = 5
    /\ tokens[1].kind = "OpenBrace"
    /\ tokens[2].kind = "Identifier" /\ tokens[4].kind = "Identifier"
    /\ result.kind = "Tag" /\ result.tag.items = <<Scalar("String", tokens[4].text)>>

\* A list with a quoted word has been parsed.
C7_WitnessQuoted ==
    /\ Done
    /\ tokens[1].kind = "OpenBracket"
    /\ Len(tokens) >= 3 /\ QuotedWord(2)
    /\ result.kind = "Tag" /\ result.tag.elem = "String"

(***************************************************************************)
(* Every character of the text is white space or part of a token.          *)
(***************************************************************************)
Covered ==
    \A n \in 1..Len(source) :
       \/ source[n] \in Whitespace
       \/ \E k \in DOMAIN spans : spans[k][1] <= n /\ n <= spans[k][2]

Tokenized == tokens # <<>> /\ Covered

(***************************************************************************)
(* C8.  parse(text) returns exactly one of a Tag, TokenizeError and        *)
(* ParseFailure.  It returns TokenizeError exactly when the tokenization   *)
(* of the whole text fails, an empty or blank text included, and then the  *)
(* grammar has not run; it returns ParseFailure only after the whole text  *)
(* was tokenized; no Tag comes with an error, and nothing is returned      *)
(* before the call ends.                                                   *)
(***************************************************************************)
C8_Outcomes ==
    /\ ~Done => result = NoResult
    /\ grammarRan => (Done /\ TokenParse(source).ok /\ tokens = TokenParse(source).toks)
    /\ Done =>
          /\ result.kind \in {"Tag", "TokenizeError", "ParseFailure"}
          /\ result.kind = "TokenizeError" <=> ~TokenParse(source).ok
          /\ result.kind = "TokenizeError" <=> ~Tokenized
          /\ result.kind = "TokenizeError" => (~grammarRan /\ result.tag = NoTag)
          /\ result.kind = "ParseFailure" => (grammarRan /\ result.tag = NoTag)
          /\ result.kind = "Tag" => (grammarRan /\ result.tag # NoTag)
          /\ (\A n \in 1..Len(source) : source[n] \in Whitespace)
             => result.kind = "TokenizeError"

\* A blank text has been answered with TokenizeError.
C8_Witness ==
    /\ Done
    /\ Len(source) >= 1 /\ \A n \in 1..Len(source) : source[n] \in Whitespace
    /\ result = Result("TokenizeError", NoTag)
    /\ ~grammarRan

\* A text that tokenizes and does not parse has been answered with
\* ParseFailure.
C8_WitnessParseFailure ==
    /\ Done
    /\ grammarRan /\ Tokenized
    /\ result = Result("ParseFailure", NoTag)

\* A text with tokens before the one that fails has been answered with
\* TokenizeError.
C8_WitnessLate ==
    /\ Done
    /\ Len(tokens) >= 2 /\ ~grammarRan
    /\ result = Result("TokenizeError", NoTag)

(***************************************************************************)
(* The characters that may not follow a number: letters, digits and        *)
(* '_', '+', '-', '.'.                                                     *)
(***************************************************************************)
Barred ==
    {"a","b","c","d","e","f","g","h","i","j","k","l","m",
     "n","o","p","q","r","s","t","u","v","w","x","y","z",
     "A","B","C","D","E","F","G","H","I","J","K","L","M",
     "N","O","P","Q","R","S","T","U","V","W","X","Y","Z",
     "0","1","2","3","4","5","6","7","8","9","_","+","-","."}

Only(text, tok) == (source = text /\ Done) => (tokens = <<tok>> /\ result.kind # "TokenizeError")

(***************************************************************************)
(* C9.  In every token sequence the lexer produces, the character right    *)
(* after an Integer or Decimal token is not alphanumeric and not one of    *)
(* '_', '+', '-', '.': the token is followed by another character or by    *)
(* the end of the text.  "123.5" is the one token Decimal("123.5", Double) *)
(* and "123abc" and "5b5" are one Identifier each.                         *)
(***************************************************************************)
C9_NumberBoundary ==
    /\ \A k \in DOMAIN tokens :
          tokens[k].kind \in {"Integer", "Decimal"}
          => \/ spans[k][2] = Len(source)
             \/ source[spans[k][2] + 1] \notin Barred
    /\ Only(<<"1","2","3",".","5">>, Tok("Decimal", <<"1","2","3",".","5">>, "Double"))
    /\ Only(<<"1","2","3","a","b","c">>, Tok("Identifier", <<"1","2","3","a","b","c">>, ""))
    /\ Only(<<"5","b","5">>, Tok("Identifier", <<"5","b","5">>, ""))

\* An Integer token has been taken with another token right after it.
C9_Witness ==
    /\ Len(tokens) >= 2
    /\ tokens[1].kind = "Integer"
    /\ spans[2][1] = spans[1][2] + 1

\* "123.5" has been tokenized.
C9_WitnessDecimal ==
    /\ Done
    /\ source = <<"1","2","3",".","5">>
    /\ tokens[1].kind = "Decimal"

(***************************************************************************)
(* The lexer of one token kind at position p of the text s.                *)
(***************************************************************************)
KindLexer(kind, s, p) ==
    CASE kind = "Comma" -> comma(s, p)
      [] kind = "Colon" -> colon(s, p)
      [] kind = "OpenBracket" -> open_bracket(s, p)
      [] kind = "CloseBracket" -> close_bracket(s, p)
      [] kind = "OpenBrace" -> open_brace(s, p)
      [] kind = "CloseBrace" -> close_brace(s, p)
      [] kind = "ArrayStart" -> array_start(s, p)
      [] kind = "Boolean" -> boolean(s, p)
      [] kind = "Integer" -> integer(s, p)
      [] kind = "Decimal" -> decimal(s, p)
      [] kind = "Identifier" -> identifier(s, p)
      [] kind = "StringLiteral" -> string_literal(s, p)

\* The order as the documentation gives it: the six single characters,
\* then ArrayStart, then the rest.
StatedTokenOrder ==
    <<"Comma", "Colon", "OpenBracket", "CloseBracket", "OpenBrace", "CloseBrace",
      "ArrayStart", "Boolean", "Integer", "Decimal", "Identifier", "StringLiteral">>

\* The same order with ArrayStart before '['.
ArrayStartFirstOrder ==
    <<"Comma", "Colon", "ArrayStart", "OpenBracket", "CloseBracket", "OpenBrace",
      "CloseBrace", "Boolean", "Integer", "Decimal", "Identifier", "StringLiteral">>

\* Token k is the match of the first kind of the order that matches where
\* the token begins, and ends where that match ends.
FirstMatchIs(Order, k) ==
    \E n \in DOMAIN Order :
       /\ KindLexer(Order[n], source, spans[k][1]).ok
       /\ \A m \in 1..(n - 1) : ~KindLexer(Order[m], source, spans[k][1]).ok
       /\ tokens[k] = KindLexer(Order[n], source, spans[k][1]).tok
       /\ spans[k][2] = KindLexer(Order[n], source, spans[k][1]).next - 1

\* Token k begins at the first character that is not white space after the
\* token before it.
BeginsAfter(k) ==
    spans[k][1] = RunEnd(source, IF k = 1 THEN 1 ELSE spans[k - 1][2] + 1, Whitespace)

\* Where the lexer has stopped without reaching the end, no kind matches.
NothingMatches(Order) ==
    (pc = "done" /\ ~grammarRan /\ pos <= Len(source))
    => \A n \in DOMAIN Order : ~KindLexer(Order[n], source, pos).ok

(***************************************************************************)
(* C10.  As claimed: at every position the lexer tries the kinds in the    *)
(* order ',', ':', '[', ']', '{', '}', ArrayStart, Boolean, Integer,       *)
(* Decimal, Identifier, StringLiteral and emits the token of the first     *)
(* that matches.  This fails at "[b;": the code tries ArrayStart before    *)
(* '[' and emits ArrayStart, where the stated order gives OpenBracket.     *)
(***************************************************************************)
C10_Original ==
    \A k \in DOMAIN tokens : BeginsAfter(k) /\ FirstMatchIs(StatedTokenOrder, k)

\* C10, amended: at every position the lexer tries the kinds in the order
\* ',', ':', ArrayStart, '[', ']', '{', '}', Boolean, Integer, Decimal,
\* Identifier, StringLiteral, all from the same position, and emits the
\* token of the first that matches; where none matches it stops.
C10_Amended ==
    /\ \A k \in DOMAIN tokens : BeginsAfter(k) /\ FirstMatchIs(ArrayStartFirstOrder, k)
    /\ NothingMatches(ArrayStartFirstOrder)

\* An ArrayStart token has been emitted where '[' matches too.
C10_Witness ==
    /\ Len(tokens) >= 1
    /\ tokens[1].kind = "ArrayStart"
    /\ open_bracket(source, spans[1][1]).ok

(***************************************************************************)
(* C11.  parse(text) returns a Tag only when the value consumes the whole  *)
(* token sequence: when tokens remain after a complete value ("1 2",       *)
(* "{a:1} x", "1b,") parse returns ParseFailure, never the Tag of the      *)
(* leading value alone.  The code does not hold to this: parser() ends     *)
(* with the choice of the value and no end(), so the tokens after the      *)
(* first value are never looked at and "1 2" gives the Int 1.              *)
(***************************************************************************)
C11_WholeSequence ==
    /\ (Done /\ result.kind = "Tag")
       => (consumed = Len(tokens) /\ LeadingExtent(tokens) = Len(tokens))
    /\ (Done /\ grammarRan /\ LeadingExtent(tokens) < Len(tokens))
       => result = Result("ParseFailure", NoTag)

====
